---- MODULE Spec2Model ----
(***************************************************************************)
(* Model of library.py: the Book record, the Services load/save of the    *)
(* JSON data file, and the Library catalogue operations that main() calls. *)
(*                                                                         *)
(* Text (str) is a sequence of one-character strings, so that lower() and  *)
(* the substring test of search_books are computed, not assumed.  A JSON   *)
(* object is a sequence of <<key, value>> pairs in the order json.dump     *)
(* writes them; Book(kwargs d) reads it by keyword.                        *)
(***************************************************************************)
EXTENDS Integers, Sequences, FiniteSets, TLC

VARIABLES
    pc,             \* "start" | "menu" | "crashed" | "exited": position of main()
    file,           \* the data file: [kind, data]
    books,          \* Library.books: sequence of Book records
    op,             \* the last operation main() ran, its arguments and what it reported
    issued,         \* history: the ids generate_id gave to add_book, in call order
    deleted,        \* history: the ids delete_book removed
    startDistinct,  \* history: the ids loaded at construction were pairwise distinct
    startEmpty      \* history: construction loaded no record (an empty store)

vars == <<pc, file, books, op, issued, deleted, startDistinct, startEmpty>>

(***************************************************************************)
(* Bounds of the model.                                                    *)
(***************************************************************************)
MaxAdds == 2        \* add_book calls in one run

\* the data file found at start holds ids 1 and 2 (see FileEntries)
MaxId == 2 + MaxAdds

(***************************************************************************)
(* Values.                                                                 *)
(***************************************************************************)
Available == "available"        \* the status literal of Book.__init__'s default
CheckedOut == "checked-out"     \* the other status literal change_status accepts
Lost == "lost"                  \* a status string outside the two literals

ValidStatuses == {Available, CheckedOut}
StatusInputs == {Available, CheckedOut, Lost}

Dune == <<"D", "u">>
Fnd == <<"F">>
Herbert == <<"H">>
\* what the user types at the prompts of main()
AddTitles == {Dune}
AddAuthors == {Herbert}
AddYears == {1965}
Queries == {<<"d">>, <<"x">>}
Fields == {"title", "author", "year"}

NoText == <<>>

(***************************************************************************)
(* Book                                                                    *)
(***************************************************************************)
Book(id, title, author, year, status) ==
    [id |-> id, title |-> title, author |-> author, year |-> year, status |-> status]

\* a to_dict that leaves the status out
to_dict_no_status(book) ==
    << <<"id", book.id>>, <<"title", book.title>>, <<"author", book.author>>,
       <<"year", book.year>> >>

to_dict(book) ==
    << <<"id", book.id>>, <<"title", book.title>>, <<"author", book.author>>,
       <<"year", book.year>>, <<"status", book.status>> >>

DictKeys(d) == {d[i][1] : i \in DOMAIN d}

DictGet(d, k) == d[CHOOSE i \in DOMAIN d : d[i][1] = k][2]

\* Book(kwargs d) raises TypeError on a missing required keyword or an unknown one.
BookAccepts(d) ==
    /\ {"id", "title", "author", "year"} \subseteq DictKeys(d)
    /\ DictKeys(d) \subseteq {"id", "title", "author", "year", "status"}

\* a decoder that gives every record the default status
BookFromDictDefaultStatus(d) ==
    Book(DictGet(d, "id"), DictGet(d, "title"), DictGet(d, "author"), DictGet(d, "year"),
         Available)

BookFromDict(d) ==
    Book(DictGet(d, "id"), DictGet(d, "title"), DictGet(d, "author"), DictGet(d, "year"),
         IF "status" \in DictKeys(d) THEN DictGet(d, "status") ELSE Available)

(***************************************************************************)
(* Services                                                                *)
(***************************************************************************)
AbsentFile == [kind |-> "absent", data |-> <<>>]
EmptyFile == [kind |-> "empty", data |-> <<>>]
CorruptFile == [kind |-> "corrupt", data |-> <<>>]
\* what a save that raised part-way leaves: a strict prefix of the new text,
\* which is zero-length or does not parse
PartialFile == [kind |-> "partial", data |-> <<>>]
JsonFile(data) == [kind |-> "json", data |-> data]

\* load_data raises (TypeError from Book(kwargs book)) instead of returning.
LoadRaises(f) ==
    /\ f.kind = "json"
    /\ \E i \in DOMAIN f.data : ~BookAccepts(f.data[i])

load_data(f) ==
    IF f.kind \in {"absent", "empty"} THEN <<>>
    ELSE IF f.kind \in {"corrupt", "partial"} THEN <<>>
    ELSE [i \in DOMAIN f.data |-> BookFromDict(f.data[i])]

\* save_data: the outcomes of open(..., 'w') and json.dump.  open may raise and
\* leave the file as it was; once opened the file is truncated, and a write that
\* raises leaves it holding a strict prefix of the new text.
save_data(f, bks) ==
    { [file |-> JsonFile([i \in DOMAIN bks |-> to_dict(bks[i])]), res |-> "ok"],
      [file |-> f, res |-> "open-failed"],
      [file |-> PartialFile, res |-> "write-failed"] }

(***************************************************************************)
(* Library                                                                 *)
(***************************************************************************)
Ids(bks) == {bks[i].id : i \in DOMAIN bks}

\* a generator that counts the records instead of taking the largest id
generate_id_count(bks) == Len(bks) + 1

generate_id(bks) ==
    IF Ids(bks) = {} THEN 0 + 1
    ELSE (CHOOSE m \in Ids(bks) : \A j \in Ids(bks) : j <= m) + 1

Lower(c) == IF c = "D" THEN "d" ELSE IF c = "F" THEN "f" ELSE IF c = "H" THEN "h" ELSE c

lower(s) == [i \in DOMAIN s |-> Lower(s[i])]

\* Python's `q in s` on str
Contains(q, s) ==
    \E k \in 0..(Len(s) - Len(q)) : \A i \in 1..Len(q) : s[k + i] = q[i]

\* the attributes that hold a str: title and author come from input(), while
\* year is int(year) in main() and a JSON number in the data file
StrFields == {"title", "author"}

\* the list comprehension of search_books raises AttributeError on the first
\* record whose field is not a str (int has no lower()); on an empty list the
\* expression is never evaluated
SearchRaises(bks, field) == bks # <<>> /\ field \notin StrFields

Matches(query, field, book) == Contains(lower(query), lower(book[field]))

DistinctIds(bks) == \A i, j \in DOMAIN bks : i # j => bks[i].id # bks[j].id

\* a delete_book without its existence check
book_exists_unchecked(bks, book_id) == TRUE

\* delete_book: any(book.id == book_id for book in self.books)
book_exists(bks, book_id) == \E i \in DOMAIN bks : bks[i].id = book_id

\* a change_status without its status check
StatusAcceptedAny(new_status) == TRUE

\* change_status: new_status in ['в наличии', 'выдана']
StatusAccepted(new_status) == new_status \in ValidStatuses

\* a loop whose comparison never holds (an id compared with its text)
LoopFindsNever(bks, book_id) == FALSE

\* change_status: the for loop reaches a record with book.id == book_id
LoopFinds(bks, book_id) == \E i \in DOMAIN bks : bks[i].id = book_id

\* an add that inserts the new record at the front of the list
BooksAfterAddFront(bks, title, author, year) ==
    <<Book(generate_id(bks), title, author, year, Available)>> \o bks

\* self.books.append(Book(self.generate_id(), title, author, year))
BooksAfterAdd(bks, title, author, year) ==
    Append(bks, Book(generate_id(bks), title, author, year, Available))

\* a delete that drops the first record with the id and keeps later ones
BooksAfterDeleteFirst(bks, book_id) ==
    LET k == CHOOSE i \in DOMAIN bks :
                 bks[i].id = book_id /\ \A j \in 1..(i - 1) : bks[j].id # book_id
    IN  [i \in 1..(Len(bks) - 1) |-> IF i < k THEN bks[i] ELSE bks[i + 1]]

\* a delete that fills the hole with the last record (swap and pop)
BooksAfterDeleteSwap(bks, book_id) ==
    LET k == CHOOSE i \in DOMAIN bks :
                 bks[i].id = book_id /\ \A j \in 1..(i - 1) : bks[j].id # book_id
    IN  [i \in 1..(Len(bks) - 1) |-> IF i = k THEN bks[Len(bks)] ELSE bks[i]]

\* [book for book in self.books if book.id != book_id]
BooksAfterDelete(bks, book_id) == SelectSeq(bks, LAMBDA b : b.id # book_id)

\* the first record the for loop of change_status meets with the id
FirstWithId(bks, book_id) ==
    CHOOSE i \in DOMAIN bks :
        /\ bks[i].id = book_id
        /\ \A j \in 1..(i - 1) : bks[j].id # book_id

\* a change_status that finds the record and leaves its status as it was
BooksAfterStatusKept(bks, book_id, new_status) == bks

\* a change_status whose loop sets the status of every record
BooksAfterStatusAll(bks, book_id, new_status) ==
    [i \in DOMAIN bks |-> [bks[i] EXCEPT !.status = new_status]]

\* book.status = new_status on that record; the loop returns right after
BooksAfterStatus(bks, book_id, new_status) ==
    [bks EXCEPT ![FirstWithId(bks, book_id)].status = new_status]

\* op: the call main() made last (name, id, arg, query), what it reported
\* (outcome, newId, results), whether it called save_data (save), and for a
\* change_status that reached a record the status it replaced (old).
NoOp == [name |-> "none", id |-> 0, arg |-> "", query |-> NoText, outcome |-> "",
         newId |-> 0, results |-> <<>>, old |-> "", save |-> "none"]

(***************************************************************************)
(* The data files main() may find at start.                                *)
(***************************************************************************)
\* to_dict without its "status" pair: an entry that leaves the status out
NoStatusEntry(id) == SubSeq(to_dict(Book(id, Dune, Herbert, 1965, Available)), 1, 4)

\* an entry without "year": Book() raises TypeError on it
NoYearEntry == << <<"id", 1>>, <<"title", Dune>>, <<"author", Herbert>> >>

FileEntries ==
    { to_dict(Book(1, Dune, Herbert, 1965, Available)),
      to_dict(Book(1, Fnd, Herbert, 1965, Lost)),
      NoStatusEntry(2) }

FileLens == 0..2

InitialFiles ==
    {AbsentFile, EmptyFile, CorruptFile, JsonFile(<<NoYearEntry>>)}
        \cup {JsonFile(d) : d \in UNION {[1..n -> FileEntries] : n \in FileLens}}

Init ==
    /\ pc = "start"
    /\ file \in InitialFiles
    /\ books = <<>>
    /\ op = NoOp
    /\ issued = <<>>
    /\ deleted = {}
    /\ startDistinct = TRUE
    /\ startEmpty = TRUE

\* Library.__init__: self.books = self.services.load_data().  The TypeError of a
\* malformed entry is not caught by load_data nor by main().
Construct ==
    /\ pc = "start"
    /\ IF LoadRaises(file)
       THEN /\ pc' = "crashed"
            /\ books' = books
            /\ op' = [NoOp EXCEPT !.name = "init", !.outcome = "raised"]
       ELSE /\ pc' = "menu"
            /\ books' = load_data(file)
            /\ op' = [NoOp EXCEPT !.name = "init", !.outcome = "loaded"]
    /\ startDistinct' = DistinctIds(books')
    /\ startEmpty' = (books' = <<>>)
    /\ UNCHANGED <<file, issued, deleted>>

\* What main() does with the outcome of a save: an OSError is caught nowhere.
AfterSave(res) == IF res = "ok" THEN "menu" ELSE "crashed"

\* menu choice 1
add_book(title, author, year) ==
    /\ pc = "menu"
    /\ Len(issued) < MaxAdds
    /\ books' = BooksAfterAdd(books, title, author, year)
    /\ issued' = Append(issued, books'[Len(books')].id)
    /\ \E s \in save_data(file, books') :
        /\ file' = s.file
        /\ pc' = AfterSave(s.res)
        /\ op' = [NoOp EXCEPT !.name = "add", !.newId = books'[Len(books')].id,
                              !.outcome = IF s.res = "ok" THEN "added" ELSE "raised",
                              !.save = s.res]
    /\ UNCHANGED <<deleted, startDistinct, startEmpty>>

\* menu choice 2
delete_book(book_id) ==
    /\ pc = "menu"
    /\ IF ~book_exists(books, book_id)
       THEN /\ op' = [NoOp EXCEPT !.name = "delete", !.id = book_id,
                                  !.outcome = "not-found"]
            /\ UNCHANGED <<pc, file, books, deleted>>
       ELSE /\ books' = BooksAfterDelete(books, book_id)
            /\ deleted' = deleted \cup {book_id}
            /\ \E s \in save_data(file, books') :
                /\ file' = s.file
                /\ pc' = AfterSave(s.res)
                /\ op' = [NoOp EXCEPT !.name = "delete", !.id = book_id,
                                      !.outcome = IF s.res = "ok" THEN "removed" ELSE "raised",
                                      !.save = s.res]
    /\ UNCHANGED <<issued, startDistinct, startEmpty>>

\* menu choice 3; the AttributeError of a non-str field is caught nowhere
search_books(query, field) ==
    /\ pc = "menu"
    /\ IF SearchRaises(books, field)
       THEN /\ pc' = "crashed"
            /\ op' = [NoOp EXCEPT !.name = "search", !.arg = field, !.query = query,
                                  !.outcome = "raised"]
       ELSE /\ pc' = pc
            /\ LET results == SelectSeq(books, LAMBDA b : Matches(query, field, b))
               IN  op' = [NoOp EXCEPT !.name = "search", !.arg = field, !.query = query,
                                      !.results = results,
                                      !.outcome = IF results # <<>> THEN "found" ELSE "no-match"]
    /\ UNCHANGED <<file, books, issued, deleted, startDistinct, startEmpty>>

\* menu choice 4
display_books ==
    /\ pc = "menu"
    /\ op' = [NoOp EXCEPT !.name = "list", !.results = books,
                          !.outcome = IF books # <<>> THEN "listed" ELSE "empty"]
    /\ UNCHANGED <<pc, file, books, issued, deleted, startDistinct, startEmpty>>

\* menu choice 5
change_status(book_id, new_status) ==
    /\ pc = "menu"
    /\ IF ~StatusAccepted(new_status)
       THEN /\ op' = [NoOp EXCEPT !.name = "set_status", !.id = book_id, !.arg = new_status,
                                  !.outcome = "invalid-status"]
            /\ UNCHANGED <<pc, file, books>>
       ELSE IF LoopFinds(books, book_id)
       THEN /\ books' = BooksAfterStatus(books, book_id, new_status)
            /\ \E s \in save_data(file, books') :
                /\ file' = s.file
                /\ pc' = AfterSave(s.res)
                /\ op' = [NoOp EXCEPT !.name = "set_status", !.id = book_id,
                                      !.arg = new_status,
                                      !.old = books[FirstWithId(books, book_id)].status,
                                      !.outcome = IF s.res = "ok" THEN "updated" ELSE "raised",
                                      !.save = s.res]
       ELSE /\ op' = [NoOp EXCEPT !.name = "set_status", !.id = book_id, !.arg = new_status,
                                  !.outcome = "not-found"]
            /\ UNCHANGED <<pc, file, books>>
    /\ UNCHANGED <<issued, deleted, startDistinct, startEmpty>>

\* menu choice 6
Exit ==
    /\ pc = "menu"
    /\ pc' = "exited"
    /\ op' = [NoOp EXCEPT !.name = "exit"]
    /\ UNCHANGED <<file, books, issued, deleted, startDistinct, startEmpty>>

Next ==
    \/ Construct
    \/ \E t \in AddTitles, a \in AddAuthors, y \in AddYears : add_book(t, a, y)
    \/ \E i \in 1..MaxId : delete_book(i)
    \/ \E q \in Queries, f \in Fields : search_books(q, f)
    \/ display_books
    \/ \E i \in 1..MaxId, st \in StatusInputs : change_status(i, st)
    \/ Exit

Spec == Init /\ [][Next]_vars
(***************************************************************************)
(* Identifier assignment                                                   *)
(***************************************************************************)
StrictlyIncreasing(seq) == \A i, j \in DOMAIN seq : i < j => seq[i] < seq[j]

\* C1: whatever deletes come between them, the ids given by successive adds are
\* strictly increasing (each greater than the id of every earlier add), hence
\* pairwise unique.
C1_IdsStrictlyIncreasing == StrictlyIncreasing(issued)

\* C2: an id that delete has removed is never given to a new record by a later
\* add.
C2_NoReuseOfDeletedIds ==
    (op.name = "add" /\ op.outcome = "added") => op.newId \notin deleted

\* C3: started from a store whose ids are pairwise distinct (an empty one
\* included), the ids of the records in the collection stay pairwise distinct
\* under add, delete, set_status, search and list.
C3_DistinctIds == (pc # "start" /\ startDistinct) => DistinctIds(books)

C3_Witness ==
    /\ pc = "menu" /\ startDistinct
    /\ Len(issued) = MaxAdds /\ deleted # {} /\ Len(books) >= 2
    /\ op.name = "set_status" /\ op.outcome = "updated"

\* C4: add gives the new record 1 + the largest id in the collection, and 1
\* when the collection is empty; after the only record, of id 1, is deleted the
\* next add gives id 1 again.
C4_GenerateId ==
    [][ (op'.name = "add") =>
            /\ IF books = <<>>
               THEN op'.newId = 1
               ELSE \E i \in DOMAIN books :
                        /\ op'.newId = books[i].id + 1
                        /\ \A j \in DOMAIN books : books[j].id <= books[i].id
            /\ (op.name = "delete" /\ op.outcome = "removed" /\ op.id = 1 /\ books = <<>>)
                   => op'.newId = 1 ]_vars

C4_Witness ==
    /\ pc = "menu" /\ op.name = "add" /\ op.outcome = "added" /\ op.newId = 1
    /\ deleted = {1} /\ Len(books) = 1 /\ Len(issued) = 2
(***************************************************************************)
(* Persistence                                                             *)
(***************************************************************************)
BookKeys == {"id", "title", "author", "year", "status"}

\* C5: after every completed add, delete and set_status the data file holds
\* exactly the in-memory collection (same records, same order, same id, title,
\* author, year and status), and a catalog built afresh from the file at any
\* operation boundary equals the in-memory collection.
C5_FileMatchesMemory ==
    /\ (pc = "menu" /\ op.outcome \in {"added", "removed", "updated"}) =>
            /\ file.kind = "json"
            /\ Len(file.data) = Len(books)
            /\ \A i \in DOMAIN books :
                    /\ DictKeys(file.data[i]) = BookKeys
                    /\ \A k \in BookKeys : DictGet(file.data[i], k) = books[i][k]
    /\ pc = "menu" => (~LoadRaises(file) /\ load_data(file) = books)

C5_Witness ==
    /\ pc = "menu" /\ op.name = "set_status" /\ op.outcome = "updated"
    /\ Len(books) >= 2 /\ \E i \in DOMAIN books : books[i].status = CheckedOut

\* C6: add, delete and set_status never apply partially: either the in-memory
\* collection is mutated and the data file rewritten to match it, or neither
\* the collection nor the file changes, also when the save fails.
C6_AllOrNothing ==
    [][ (op'.name \in {"add", "delete", "set_status"}) =>
            \/ file' = JsonFile([i \in DOMAIN books' |-> to_dict(books'[i])])
            \/ (books' = books /\ file' = file) ]_vars

(***************************************************************************)
(* Rejections                                                              *)
(***************************************************************************)
\* C7: delete(id) and set_status(id, valid status) with an id no record has
\* report not-found, leave the collection unchanged and do not write the file.
C7_NotFoundNoEffect ==
    [][ ( /\ \/ op'.name = "delete"
             \/ (op'.name = "set_status" /\ op'.arg \in ValidStatuses)
          /\ \A i \in DOMAIN books : books[i].id # op'.id ) =>
            /\ op'.outcome = "not-found"
            /\ op'.save = "none"
            /\ books' = books
            /\ file' = file ]_vars

\* delete(1) a second time, right after it removed the record
C7_Witness ==
    /\ pc = "menu" /\ op.name = "delete" /\ op.outcome = "not-found"
    /\ op.id \in deleted /\ books # <<>>

\* C8: set_status with a status outside {available, checked-out} is rejected as
\* invalid-status, changes no record and does not write the file, whether or
\* not a record has the id: the status is checked before the id is looked up.
C8_InvalidStatusNoEffect ==
    [][ (op'.name = "set_status" /\ op'.arg \notin ValidStatuses) =>
            /\ op'.outcome = "invalid-status"
            /\ op'.save = "none"
            /\ books' = books
            /\ file' = file ]_vars

C8_Witness ==
    /\ pc = "menu" /\ op.name = "set_status" /\ op.arg = Lost
    /\ op.outcome = "invalid-status"
    /\ \E i \in DOMAIN books : books[i].id = op.id /\ books[i].status = Available
(***************************************************************************)
(* Delete and status change                                                *)
(***************************************************************************)
RemoveAt(bks, k) == [i \in 1..(Len(bks) - 1) |-> IF i < k THEN bks[i] ELSE bks[i + 1]]

KeptIdx(bks, id) == {i \in DOMAIN bks : bks[i].id # id}

NthKept(bks, id, n) ==
    CHOOSE i \in KeptIdx(bks, id) : Cardinality({j \in KeptIdx(bks, id) : j <= i}) = n

\* list and search issued right after a delete return no record with its id
NotReturnedAfterDelete ==
    (op.name = "delete" /\ op.outcome = "removed" /\ op'.name \in {"search", "list"}) =>
        \A n \in DOMAIN op'.results : op'.results[n].id # op.id

StatusOfId(bks, id) ==
    bks[CHOOSE i \in DOMAIN bks : bks[i].id = id /\ \A j \in 1..(i - 1) : bks[j].id # id].status

\* set_status(id, checked-out) that updated, then set_status(id, available) that updated
OutThenBack ==
    /\ op.name = "set_status" /\ op.outcome = "updated" /\ op.arg = CheckedOut
    /\ op'.name = "set_status" /\ op'.outcome = "updated" /\ op'.arg = Available
    /\ op'.id = op.id

\* C10 as stated: whichever of the two statuses the record has,
\* set_status(id, checked-out) followed by set_status(id, available) restores
\* the status the record had before the two calls.
C10_RestoresOriginal ==
    [][ (OutThenBack /\ op.old \in ValidStatuses) =>
            StatusOfId(books', op.id) = op.old ]_vars

\* C10 amended: set_status(id, checked-out) followed by set_status(id,
\* available) leaves the record available, which is the status it had before
\* the two calls exactly when that status was available.
C10_EndsAvailable ==
    [][ OutThenBack =>
            /\ StatusOfId(books', op.id) = Available
            /\ (StatusOfId(books', op.id) = op.old) <=> (op.old = Available) ]_vars

C10_Witness ==
    /\ pc = "menu" /\ op.name = "set_status" /\ op.outcome = "updated"
    /\ op.arg = Available /\ op.old = CheckedOut
    /\ StatusOfId(books, op.id) = Available
(***************************************************************************)
(* Search                                                                  *)
(***************************************************************************)
Digit(d) == CASE d = 0 -> "0" [] d = 1 -> "1" [] d = 2 -> "2" [] d = 3 -> "3"
              [] d = 4 -> "4" [] d = 5 -> "5" [] d = 6 -> "6" [] d = 7 -> "7"
              [] d = 8 -> "8" [] d = 9 -> "9"

RECURSIVE Decimal(_)
Decimal(n) == IF n < 10 THEN <<Digit(n)>> ELSE Append(Decimal(n \div 10), Digit(n % 10))

\* the textual form of a field: the text itself, or the decimal digits of the year
TextForm(book, field) == IF field = "year" THEN Decimal(book.year) ELSE book[field]

ExpectedMatches(bks, query, field) ==
    SelectSeq(bks, LAMBDA b : Contains(lower(query), lower(TextForm(b, field))))

\* C11: search(query, field), for each of title, author and year, returns
\* exactly the records whose textual form of that field contains query as a
\* case-insensitive substring, in collection order (none when nothing
\* matches), and fails for no supported field on a non-empty collection.
C11_SearchReturnsMatches ==
    [][ (op'.name = "search") =>
            /\ op'.outcome # "raised"
            /\ op'.results = ExpectedMatches(books, op'.query, op'.arg) ]_vars
(***************************************************************************)
(* Load                                                                    *)
(***************************************************************************)
\* the file parses as the expected structure: a list of records with the fields
WellFormedFile(f) == f.kind = "json" /\ \A i \in DOMAIN f.data : BookAccepts(f.data[i])

\* C12: load returns an empty sequence and does not fail when the data file is
\* absent, zero-length, or present but not parseable as the expected list of
\* records; no content of the file makes the construction of the catalog fatal.
C12_LoadNeverFatal ==
    (op.name = "init") =>
        /\ op.outcome = "loaded" /\ pc = "menu"
        /\ ~WellFormedFile(file) => books = <<>>
(***************************************************************************)
(* Round trip                                                              *)
(***************************************************************************)
\* what load_data returns from the file a save of bks that did not raise wrote
Reloaded(f, bks) ==
    LET s == CHOOSE x \in save_data(f, bks) : x.res = "ok" IN load_data(s.file)

\* C13: for any collection the program can hold, save followed by load yields
\* an equivalent collection: as many records, in the same order, each with the
\* same id, title, author, year and status.
C13_RoundTrip ==
    (pc = "menu") =>
        /\ \A s \in save_data(file, books) : s.res = "ok" => ~LoadRaises(s.file)
        /\ Len(Reloaded(file, books)) = Len(books)
        /\ \A i \in DOMAIN books : \A k \in BookKeys :
               Reloaded(file, books)[i][k] = books[i][k]

C13_Witness ==
    /\ pc = "menu" /\ op.save = "ok" /\ Len(books) >= 2
    /\ \E i, j \in DOMAIN books :
           /\ books[i].title # books[j].title
           /\ books[i].status = CheckedOut /\ books[j].status = Lost
(***************************************************************************)
(* Add and status change: effect                                           *)
(***************************************************************************)
\* C14: add(title, author, year) is never rejected, also when a record with the
\* same title exists: it appends exactly one record at the end, with the new
\* id, the given title, author and year and status available, keeps every
\* earlier record in its position with its fields, and reports the record
\* whenever save_data returns.
C14_AddAppendsOneRecord ==
    [][ \A t \in AddTitles, a \in AddAuthors, y \in AddYears :
            add_book(t, a, y) =>
                /\ books' = Append(books, [id |-> op'.newId, title |-> t, author |-> a,
                                           year |-> y, status |-> Available])
                /\ op'.newId \notin Ids(books)
                /\ (op'.outcome = "added") <=> (op'.save = "ok") ]_vars

\* an add that succeeded although an earlier record has the same title
C14_Witness ==
    /\ pc = "menu" /\ op.name = "add" /\ op.outcome = "added" /\ Len(books) >= 2
    /\ \E i \in 1..(Len(books) - 1) : books[i].title = books[Len(books)].title
    /\ books[Len(books)].status = Available /\ books[Len(books)].id = op.newId

\* C15: set_status(id, s) with s one of the two statuses and id present sets
\* that record's status to s, calls save_data with the full collection and,
\* when it returns, reports updated with the file holding every record; so also
\* when s is the status the record already has.
C15_SetStatusUpdates ==
    [][ ( /\ op'.name = "set_status" /\ op'.arg \in ValidStatuses
          /\ \E i \in DOMAIN books : books[i].id = op'.id ) =>
            /\ StatusOfId(books', op'.id) = op'.arg
            /\ op'.save # "none"
            /\ (op'.outcome = "updated") <=> (op'.save = "ok")
            /\ (op'.save = "ok") =>
                   /\ file'.kind = "json" /\ Len(file'.data) = Len(books')
                   /\ \A i \in DOMAIN books' : \A k \in BookKeys :
                          DictGet(file'.data[i], k) = books'[i][k] ]_vars

\* an update to the status the record already had, saved and reported
C15_Witness ==
    /\ pc = "menu" /\ op.name = "set_status" /\ op.outcome = "updated"
    /\ op.old = op.arg /\ op.save = "ok" /\ Len(books) >= 2
(***************************************************************************)
(* Atomicity of save                                                       *)
(***************************************************************************)
\* C16: save never exposes a half-written data file: during and after a save,
\* one that fails part-way included, a reader of the file sees the complete
\* previous collection or the complete new one, never a partial one.
\* (A prefix written over an absent or zero-length file is let pass: it may be
\* zero-length, which is what the reader saw before.)
C16_FileOldOrNew ==
    [][ \/ file' = file
        \/ file' = JsonFile([i \in DOMAIN books' |-> to_dict(books'[i])])
        \/ (file.kind \in {"absent", "empty"} /\ file'.kind = "partial") ]_vars
(***************************************************************************)
(* Record fields                                                           *)
(***************************************************************************)
\* C17: in every reachable state, the one right after loading any parseable
\* data file included, every record's status is one of the two legal values.
C17_StatusLegal == \A i \in DOMAIN books : books[i].status \in ValidStatuses

SameIdentity(a, b) ==
    a.id = b.id /\ a.title = b.title /\ a.author = b.author /\ a.year = b.year

\* C18: the only change an operation makes to a record that stays in the
\* collection is set_status putting the given status on the record with the
\* given id: id, title, author and year never change; add, delete, search and
\* list change no record's status; set_status changes no other record.
C18_OnlyTargetStatusChanges ==
    [][ /\ (op'.name \in {"search", "list", "exit"}) => books' = books
        /\ (op'.name = "add") => \A i \in DOMAIN books : books'[i] = books[i]
        /\ (op'.name = "delete") =>
               \A n \in DOMAIN books' : \E i \in DOMAIN books : books'[n] = books[i]
        /\ (op'.name = "set_status") =>
               /\ Len(books') = Len(books)
               /\ \A i \in DOMAIN books :
                      /\ SameIdentity(books'[i], books[i])
                      /\ books'[i].status # books[i].status =>
                             /\ op'.arg \in ValidStatuses /\ op'.save # "none"
                             /\ books[i].id = op'.id /\ books'[i].status = op'.arg
                             /\ \A j \in DOMAIN books : j # i => books'[j] = books[j] ]_vars

\* a status change next to another record of the same id that kept its status
C18_Witness ==
    /\ pc = "menu" /\ op.name = "set_status" /\ op.outcome = "updated"
    /\ op.old # op.arg /\ Len(books) >= 2
    /\ \E i, j \in DOMAIN books :
           /\ i # j /\ books[i].id = op.id /\ books[j].id = op.id
           /\ books[i].status = op.arg /\ books[j].status # op.arg
(***************************************************************************)
(* Order                                                                   *)
(***************************************************************************)
\* a is b with some elements left out, the others in b's order
RECURSIVE IsSubseq(_, _)
IsSubseq(a, b) ==
    IF a = <<>> THEN TRUE
    ELSE IF b = <<>> THEN FALSE
    ELSE IF Head(a) = Head(b) THEN IsSubseq(Tail(a), Tail(b))
    ELSE IsSubseq(a, Tail(b))

\* C19: after any adds, deletes and status changes list returns the full
\* collection in insertion order: a new record goes after all present ones,
\* and neither delete nor set_status reorders the records that remain.
C19_InsertionOrderKept ==
    [][ /\ (op'.name = "list") => op'.results = books
        /\ (op'.name = "add") =>
               /\ Len(books') = Len(books) + 1
               /\ SubSeq(books', 1, Len(books)) = books
        /\ (op'.name = "delete") => IsSubseq(books', books)
        /\ (op'.name = "set_status") =>
               /\ Len(books') = Len(books)
               /\ \A i \in DOMAIN books : books'[i].id = books[i].id
                                           /\ books'[i].title = books[i].title ]_vars

\* a listing after adds, a delete and a status change
C19_Witness ==
    /\ pc = "menu" /\ op.name = "list" /\ op.outcome = "listed" /\ op.results = books
    /\ Len(books) >= 3 /\ deleted # {} /\ Len(issued) = MaxAdds
    /\ \E i \in DOMAIN books : books[i].status = CheckedOut

\* C20: started from an empty store, the collection is always ordered by
\* strictly increasing id and every id is at least 1, so the last record holds
\* the largest id.
C20_IncreasingIdsFromEmpty ==
    (pc # "start" /\ startEmpty) =>
        /\ \A i, j \in DOMAIN books : i < j => books[i].id < books[j].id
        /\ \A i \in DOMAIN books : books[i].id >= 1
        /\ books # <<>> => \A i \in DOMAIN books : books[i].id <= books[Len(books)].id

\* two records added to an empty store, one of them updated since
C20_Witness ==
    /\ pc = "menu" /\ startEmpty /\ Len(books) = 2 /\ Len(issued) = 2
    /\ books[1].id = 1 /\ books[2].id = 2
    /\ op.name = "set_status" /\ op.outcome = "updated"
====
